---- MODULE Spec2Model ----
(***************************************************************************)
(* Model of the Nas class of src/nas/nas/nas.py: the remote-file content   *)
(* index (image_data), its persisted copy (nas_images.json), the rebuild   *)
(* (update_db / recursive_hashes), the size-based cleaner                  *)
(* (delete_files_by_size), the duplicate resolver (find_duplicates_in_db / *)
(* delete_duplicates) and the workflow cleanup_nas_images that drives them *)
(* against an SMB share.                                                   *)
(*                                                                         *)
(* A path is the sequence of its components: <<"P", "d", "c">> is          *)
(* "P/d/c", and a path that ends with a separator has the empty string as  *)
(* its last component: <<"P", "">> is "P/".                                *)
(***************************************************************************)
EXTENDS Integers, Sequences, FiniteSets, TLC

\* ------------------------------------------------------------------ bounds
\* File contents are 1..NumContents; creation times are 1..MaxTime.
NumContents == 2
MaxTime == 2
\* How many times something outside the program changes a file of the share
\* or the index file during a run of the model.
MaxRemoteChanges == 1
\* How many times copy_files_to_nas_photos_library is called.
MaxCopies == 2
\* How many records an index file written outside the program holds.
MaxLoaded == 3

\* ------------------------------------------------------- the remote share
\* The share holds the folder P with the files a and b and the folders d
\* and e; d holds the file c and e holds the file f.  listPath returns the
\* entries in this order, after the entries "." and "..".
DirPaths == {<<"P">>, <<"P", "d">>, <<"P", "e">>}
FilePaths == {<<"P", "a">>, <<"P", "d", "c">>, <<"P", "b">>, <<"P", "e", "f">>}
NoPath == <<>>

\* What copy_files_to_nas_photos_library can add to the share: the folder n
\* of P, the folder Pn beside P, and the files f and g in e, n and Pn.
NewDirPaths == {<<"P", "n">>, <<"Pn">>}
NewFilePaths ==
    {<<"P", "e", "g">>, <<"P", "n", "f">>, <<"P", "n", "g">>, <<"Pn", "f">>, <<"Pn", "g">>}
RemotePaths == FilePaths \cup NewFilePaths \cup NewDirPaths

Entries(folder) ==
    IF folder = <<"P">> THEN <<"a", "d", "b", "e", "n">>
    ELSE IF folder = <<"P", "d">> THEN <<"c">>
    ELSE IF folder = <<"P", "e">> THEN <<"f", "g">>
    ELSE IF folder \in NewDirPaths THEN <<"f", "g">>
    ELSE <<>>

Contents == 1 .. NumContents
Times == 1 .. MaxTime

Absent == [exists |-> FALSE, content |-> 0, create_time |-> 0]
FileStates == {Absent} \cup
    [exists : {TRUE}, content : Contents, create_time : Times]

\* if ... os.path.getsize(local_file_path) < 10000
MinImageSize == 10000

\* The contents of the local files: one just below the minimum size and one
\* of the minimum size.
LocalContents == {MinImageSize - 1, MinImageSize}

\* The names that the files of the local folder can have; a local file is
\* its content, 0 when there is no file of that name.
LocalFileNames == {"f", "g"}

\* hashlib.md5(bytes).hexdigest(): a function of the content alone; distinct
\* contents of the model have distinct digests.
md5(content) ==
    IF content = MinImageSize - 1 THEN "fa24"
    ELSE IF content = MinImageSize THEN "b7a7"
    ELSE <<"c4ca", "c81e", "eccb", "a87f", "e4da">>[content]

\* file_size of a file: the length of its content.
file_size(content) == content

\* os.path.join(nas_folder_path, filename): a separator is added unless the
\* folder path ends with one.
join(folder, filename) ==
    IF folder # <<>> /\ folder[Len(folder)] = ""
    THEN [folder EXCEPT ![Len(folder)] = filename]
    ELSE Append(folder, filename)

\* The folder of the share that a path names: "P/" names the folder P.
FolderOf(path) ==
    IF path # <<>> /\ path[Len(path)] = "" THEN SubSeq(path, 1, Len(path) - 1)
    ELSE path

\* SMBConnection.listPath: the SharedFile entries of a folder, "." and ".."
\* first, then the entries that exist.
RECURSIVE ListFrom(_, _, _)
ListFrom(rem, folder, i) ==
    IF i > Len(Entries(folder)) THEN <<>>
    ELSE LET name == Entries(folder)[i]
             p == join(folder, name)
             rest == ListFrom(rem, folder, i + 1)
         IN IF p \in DirPaths \/ (p \in NewDirPaths /\ rem[p].exists)
            THEN <<[filename |-> name, isDirectory |-> TRUE,
                    create_time |-> 0, file_size |-> 0]>> \o rest
            ELSE IF p \in NewDirPaths THEN rest
            ELSE IF rem[p].exists
            THEN <<[filename |-> name, isDirectory |-> FALSE,
                    create_time |-> rem[p].create_time,
                    file_size |-> file_size(rem[p].content)]>> \o rest
            ELSE rest

Dot(name) == [filename |-> name, isDirectory |-> TRUE,
              create_time |-> 0, file_size |-> 0]

listPath(rem, folder) ==
    <<Dot("."), Dot("..")>> \o ListFrom(rem, FolderOf(folder), 1)

\* --------------------------------------------------------------- variables
VARIABLES
    conn,             \* self.conn: "none" (None), "open", "broken"
    image_data,       \* self.image_data: the live index
    temp_image_data,  \* self.temp_image_data: the working set of a rebuild
    disk,             \* the file image_data_filename
    remote,           \* the files of the share
    pc,               \* position inside cleanup_nas_images; "raised" when an
                      \* exception left it
    duplicates,       \* local of cleanup_nas_images: groups still to resolve
    date_choice,      \* argument delete_duplicates of the run being resolved
    shown,            \* paths printed by cleanup_nas_images in this run
    last,             \* the last method that ran, its inputs and its effects
    built,            \* the last completed rebuild, while the index is its result
    changes,          \* number of changes made by other clients of the share
    local,            \* the local folder given to copy_files_to_nas_photos_library
    copies            \* number of calls of copy_files_to_nas_photos_library

vars == <<conn, image_data, temp_image_data, disk, remote, pc, duplicates,
          date_choice, shown, last, built, changes, local, copies>>


\* ------------------------------------------------------ the persisted file
Missing == [exists |-> FALSE, valid |-> FALSE, text |-> <<>>]
Corrupt == [exists |-> TRUE, valid |-> FALSE, text |-> <<>>]

\* json.dump(self.image_data, f, default=str): one JSON object per record,
\* written here as the tuple of its values.  Paths, digests, creation times
\* (numbers) and sizes are JSON-serialisable, so default=str is not used.
\* json_dump writing the creation time with less precision than it has.
RECURSIVE json_dump_truncated(_)
json_dump_truncated(data) ==
    IF data = <<>> THEN <<>>
    ELSE <<<<Head(data).path, Head(data).hash,
             Head(data).creation_date - (Head(data).creation_date % 2),
             Head(data).size>>>>
         \o json_dump_truncated(Tail(data))

RECURSIVE json_dump(_)
json_dump(data) ==
    IF data = <<>> THEN <<>>
    ELSE <<<<Head(data).path, Head(data).hash, Head(data).creation_date,
             Head(data).size>>>> \o json_dump(Tail(data))

\* json.load(f)
RECURSIVE json_load(_)
json_load(text) ==
    IF text = <<>> THEN <<>>
    ELSE <<[path |-> Head(text)[1], hash |-> Head(text)[2],
            creation_date |-> Head(text)[3], size |-> Head(text)[4]]>>
         \o json_load(Tail(text))

\* save_db opening the file with mode 'a': a second dump written after the
\* first makes a file that json.load cannot parse.
save_db_append(data) ==
    IF disk.exists THEN [exists |-> TRUE, valid |-> FALSE, text |-> <<>>]
    ELSE [exists |-> TRUE, valid |-> TRUE, text |-> json_dump(data)]

\* save_db leaving the file as it is when the index is empty.
save_db_unless_empty(data) ==
    IF data = <<>> THEN disk
    ELSE [exists |-> TRUE, valid |-> TRUE, text |-> json_dump(data)]

\* save_db: the file is opened with mode 'w' and rewritten in full.  The
\* file name is a valid name of a writable file and the records hold only
\* strings and numbers, so neither open nor json.dump raises and the
\* handler of ValueError does not run.
save_db(data) == [exists |-> TRUE, valid |-> TRUE, text |-> json_dump(data)]

\* load_db: the pair of the returned value and the new image_data.
load_db(file, data) ==
    IF ~file.exists THEN [ok |-> FALSE, image_data |-> data]
    ELSE IF ~file.valid THEN [ok |-> FALSE, image_data |-> <<>>]
    ELSE [ok |-> TRUE, image_data |-> json_load(file.text)]

\* ---------------------------------------------------------------- rebuild
\* next((item for item in self.image_data if item['path'] == file_path), None):
\* the position of the first record with that path, 0 for None.
\* existing_file_info finding no record: every file is read and hashed.
existing_file_info_never(data, file_path, i) == 0

\* existing_file_info taking the last record with that path.
existing_file_info_last(data, file_path, i) ==
    LET found == {k \in i .. Len(data) : data[k].path = file_path}
    IN IF found = {} THEN 0
       ELSE CHOOSE k \in found : \A j \in found : j <= k

RECURSIVE existing_file_info(_, _, _)
existing_file_info(data, file_path, i) ==
    IF i > Len(data) THEN 0
    ELSE IF data[i].path = file_path THEN i
    ELSE existing_file_info(data, file_path, i + 1)

\* calculate_file_hash with the SharedFile entry given: retrieveFile, md5,
\* and the attributes of the listing entry.
calculate_file_hash(rem, nas_file_path, file) ==
    [path |-> nas_file_path,
     hash |-> md5(rem[nas_file_path].content),
     creation_date |-> file.create_time,
     size |-> file.file_size]

\* The state of a walk: the working set, the paths whose content was
\* retrieved and hashed, whether a remote call raised and the path it was
\* made on.
\* WalkStart without self.temp_image_data.clear(): the walk appends to what
\* the previous rebuild left in the working set.
WalkStart_uncleared ==
    [temp |-> temp_image_data, hashed |-> {}, exc |-> FALSE, raisedAt |-> <<>>]

\* update_db line 335: the working set is cleared before the walk.
WalkStart == [temp |-> <<>>, hashed |-> {}, exc |-> FALSE, raisedAt |-> <<>>]

\* recursive_hashes(share, nas_folder_path), on the share rem with the live
\* index data; the remote call on failAt raises (listPath of a folder,
\* retrieveFile of a file), and every call raises when the connection is
\* not alive.  No exception is caught here.
RECURSIVE recursive_hashes(_, _, _, _, _, _)
RECURSIVE hash_entries(_, _, _, _, _, _, _, _)
recursive_hashes(rem, data, alive, failAt, nas_folder_path, st) ==
    IF st.exc THEN st
    ELSE IF ~alive \/ nas_folder_path = failAt
    THEN [st EXCEPT !.exc = TRUE, !.raisedAt = nas_folder_path]
    ELSE hash_entries(rem, data, alive, failAt, nas_folder_path,
                      listPath(rem, nas_folder_path), 1, st)

hash_entries(rem, data, alive, failAt, folder, nas_files, i, st) ==
    IF st.exc \/ i > Len(nas_files) THEN st
    ELSE LET file == nas_files[i]
             file_path == join(folder, file.filename)
             k == existing_file_info(data, file_path, 1)
             after ==
                 IF file.filename \in {".", ".."} THEN st
                 ELSE IF file.isDirectory
                 THEN recursive_hashes(rem, data, alive, failAt, file_path, st)
                 ELSE IF k # 0
                 THEN [st EXCEPT !.temp = Append(@, data[k])]
                 ELSE IF file_path = failAt
                 THEN [st EXCEPT !.exc = TRUE, !.raisedAt = file_path]
                 ELSE [st EXCEPT
                         !.temp = Append(@, calculate_file_hash(rem, file_path, file)),
                         !.hashed = @ \cup {file_path}]
         IN hash_entries(rem, data, alive, failAt, folder, nas_files, i + 1, after)

\* ------------------------------------------------------ duplicate grouping
\* hash_map[file_hash].append(file_info) / hash_map[file_hash] = [file_info]:
\* a dict keeps its keys in insertion order.
RECURSIVE hash_map_put(_, _, _)
hash_map_put(hash_map, file_info, k) ==
    IF k > Len(hash_map)
    THEN Append(hash_map, [key |-> file_info.hash, files |-> <<file_info>>])
    ELSE IF hash_map[k].key = file_info.hash
    THEN [hash_map EXCEPT ![k].files = Append(@, file_info)]
    ELSE hash_map_put(hash_map, file_info, k + 1)

RECURSIVE build_hash_map(_, _)
build_hash_map(data, hash_map) ==
    IF data = <<>> THEN hash_map
    ELSE build_hash_map(Tail(data), hash_map_put(hash_map, Head(data), 1))

\* values_longer_than_one with len(files) > 0.
RECURSIVE values_nonempty(_)
values_nonempty(hash_map) ==
    IF hash_map = <<>> THEN <<>>
    ELSE <<Head(hash_map).files>> \o values_nonempty(Tail(hash_map))

RECURSIVE values_longer_than_one(_)
values_longer_than_one(hash_map) ==
    IF hash_map = <<>> THEN <<>>
    ELSE IF Len(Head(hash_map).files) > 1
    THEN <<Head(hash_map).files>> \o values_longer_than_one(Tail(hash_map))
    ELSE values_longer_than_one(Tail(hash_map))

find_duplicates_in_db(data) == values_longer_than_one(build_hash_map(data, <<>>))

\* ------------------------------------------------------------- deletion
\* No fault: every deleteFiles call on an existing file succeeds.
NoFault == [path |-> NoPath, kind |-> "none"]
Faults == {NoFault} \cup
    [path : FilePaths, kind : {"ValueError", "OperationFailure"}]

\* SMBConnection.deleteFiles(share, file_path): "ok", or the exception raised.
deleteFiles(rem, alive, file_path, fault) ==
    IF ~alive THEN "NotConnectedError"
    ELSE IF fault.path = file_path THEN fault.kind
    ELSE IF ~rem[file_path].exists THEN "OperationFailure"
    ELSE "ok"

\* delete_file: a ValueError is caught and printed, any other exception
\* leaves the method.
delete_file(rem, alive, file_path, fault) ==
    LET r == deleteFiles(rem, alive, file_path, fault)
    IN [remote |-> IF r = "ok" THEN [rem EXCEPT ![file_path] = Absent] ELSE rem,
        gone |-> r = "ok",
        exc |-> IF r \in {"ok", "ValueError"} THEN "none" ELSE r]

\* The state of a deletion loop: the share, deleted_files, the paths whose
\* remote delete succeeded, the paths whose remote delete failed, and the
\* exception that left the loop.
LoopStart(rem) ==
    [remote |-> rem, deleted_files |-> <<>>, removed |-> {}, failed |-> {},
     exc |-> "none"]

\* for file_info in impacted_files:
\*     self.delete_file(...); deleted_files.append(file_info)
RECURSIVE delete_impacted(_, _, _, _)
delete_impacted(impacted_files, alive, fault, st) ==
    IF impacted_files = <<>> \/ st.exc # "none" THEN st
    ELSE LET file_info == Head(impacted_files)
             d == delete_file(st.remote, alive, file_info.path, fault)
             after ==
                 IF d.exc # "none"
                 THEN [st EXCEPT !.exc = d.exc,
                                 !.failed = @ \cup {file_info.path}]
                 ELSE [st EXCEPT
                         !.remote = d.remote,
                         !.deleted_files = Append(@, file_info),
                         !.removed = IF d.gone THEN @ \cup {file_info.path} ELSE @,
                         !.failed = IF d.gone THEN @ ELSE @ \cup {file_info.path}]
         IN delete_impacted(Tail(impacted_files), alive, fault, after)

\* for file_info in files_to_delete:
\*     try: self.delete_file(...); deleted_files.append(file_info)
\*     except ValueError: print(...)
\* delete_file lets no ValueError out, so the handler never runs.
RECURSIVE delete_group(_, _, _, _)
delete_group(files_to_delete, alive, fault, st) ==
    IF files_to_delete = <<>> \/ st.exc # "none" THEN st
    ELSE LET file_info == Head(files_to_delete)
             d == delete_file(st.remote, alive, file_info.path, fault)
             after ==
                 IF d.exc = "ValueError" THEN st
                 ELSE IF d.exc # "none"
                 THEN [st EXCEPT !.exc = d.exc,
                                 !.failed = @ \cup {file_info.path}]
                 ELSE [st EXCEPT
                         !.remote = d.remote,
                         !.deleted_files = Append(@, file_info),
                         !.removed = IF d.gone THEN @ \cup {file_info.path} ELSE @,
                         !.failed = IF d.gone THEN @ ELSE @ \cup {file_info.path}]
         IN delete_group(Tail(files_to_delete), alive, fault, after)

\* [file_info for file_info in self.image_data if file_info not in deleted_files]
\* (records compare by value).
InSeq(x, seq) == \E i \in 1 .. Len(seq) : seq[i] = x

\* not_in_deleted comparing the digests instead of the records.
RECURSIVE not_in_deleted_by_hash(_, _)
not_in_deleted_by_hash(data, deleted_files) ==
    IF data = <<>> THEN <<>>
    ELSE IF \E i \in 1 .. Len(deleted_files) : deleted_files[i].hash = Head(data).hash
    THEN not_in_deleted_by_hash(Tail(data), deleted_files)
    ELSE <<Head(data)>> \o not_in_deleted_by_hash(Tail(data), deleted_files)

RECURSIVE not_in_deleted(_, _)
not_in_deleted(data, deleted_files) ==
    IF data = <<>> THEN <<>>
    ELSE IF InSeq(Head(data), deleted_files)
    THEN not_in_deleted(Tail(data), deleted_files)
    ELSE <<Head(data)>> \o not_in_deleted(Tail(data), deleted_files)

\* [file_info for file_info in self.image_data if file_info['size'] <= size_limit]
\* impacted_by_size with size < size_limit.
RECURSIVE impacted_strictly_smaller(_, _)
impacted_strictly_smaller(data, size_limit) ==
    IF data = <<>> THEN <<>>
    ELSE IF Head(data).size < size_limit
    THEN <<Head(data)>> \o impacted_strictly_smaller(Tail(data), size_limit)
    ELSE impacted_strictly_smaller(Tail(data), size_limit)

RECURSIVE impacted_by_size(_, _)
impacted_by_size(data, size_limit) ==
    IF data = <<>> THEN <<>>
    ELSE IF Head(data).size <= size_limit
    THEN <<Head(data)>> \o impacted_by_size(Tail(data), size_limit)
    ELSE impacted_by_size(Tail(data), size_limit)

\* list_small_files with size <= size_limit, as delete_files_by_size selects.
list_small_files_inclusive(data, size_limit) == impacted_by_size(data, size_limit)

\* list_small_files(image_data, size_limit): the records with
\* size < size_limit, in their order ([] when there is none).
RECURSIVE list_small_files(_, _)
list_small_files(data, size_limit) ==
    IF data = <<>> THEN <<>>
    ELSE IF Head(data).size < size_limit
    THEN <<Head(data)>> \o list_small_files(Tail(data), size_limit)
    ELSE list_small_files(Tail(data), size_limit)

\* datetime.fromtimestamp(creation_date): the calendar day and the second of
\* the day; datetimes compare day first.
fromtimestamp(ts) == [day |-> ts \div 86400, second |-> ts % 86400]

Before(d1, d2) ==
    d1.day < d2.day \/ (d1.day = d2.day /\ d1.second < d2.second)

\* list.sort(key=..., reverse=...) is stable also when reverse is set: a
\* record goes after every record that must not follow it.
RECURSIVE insert_sorted(_, _, _, _)
insert_sorted(sorted, x, reverse, i) ==
    IF i > Len(sorted) THEN Append(sorted, x)
    ELSE LET kx == fromtimestamp(x.creation_date)
             ki == fromtimestamp(sorted[i].creation_date)
             goesBefore == IF reverse THEN Before(ki, kx) ELSE Before(kx, ki)
         IN IF goesBefore
            THEN SubSeq(sorted, 1, i - 1) \o <<x>> \o SubSeq(sorted, i, Len(sorted))
            ELSE insert_sorted(sorted, x, reverse, i + 1)

RECURSIVE Reversed(_)
Reversed(seq) ==
    IF seq = <<>> THEN <<>> ELSE Append(Reversed(Tail(seq)), Head(seq))

\* A descending sort made of an ascending sort and a reversal: records with
\* equal creation times come out in the opposite order.
RECURSIVE sort_then_reverse(_, _, _)
sort_then_reverse(group, reverse, sorted) ==
    IF group = <<>> THEN (IF reverse THEN Reversed(sorted) ELSE sorted)
    ELSE sort_then_reverse(Tail(group), reverse,
                           insert_sorted(sorted, Head(group), FALSE, 1))

RECURSIVE sort_by_creation_date(_, _, _)
sort_by_creation_date(group, reverse, sorted) ==
    IF group = <<>> THEN sorted
    ELSE sort_by_creation_date(Tail(group), reverse,
                              insert_sorted(sorted, Head(group), reverse, 1))

\* The first lines of delete_duplicates: the group after the sort.
sorted_group(duplicate_group, choice) ==
    IF choice = "older" THEN sort_by_creation_date(duplicate_group, FALSE, <<>>)
    ELSE IF choice = "newer" THEN sort_by_creation_date(duplicate_group, TRUE, <<>>)
    ELSE duplicate_group

\* -------------------------------------------------------------- traversal
\* max_depth=None
NoDepth == -1

\* current_depth not counting the last separator of the path.
current_depth_short(nas_folder_path) == Len(nas_folder_path) - 2

\* nas_folder_path.count('/'): "P/d" holds one separator.  (The path '/',
\* whose depth is 0, is not a folder of the model.)
current_depth(nas_folder_path) == Len(nas_folder_path) - 1

\* The state of a traversal: items_list, the folders whose listing was
\* read, the folders whose listing raised.
TraverseStart == [items |-> <<>>, walked |-> {}, unlisted |-> {}]

\* traverse_items appending the folders only when item_type is 'folders'.
RECURSIVE traverse_nas_folder(_, _, _, _, _, _, _)
RECURSIVE traverse_items(_, _, _, _, _, _, _, _, _)
RECURSIVE traverse_items_strict(_, _, _, _, _, _, _, _, _)
traverse_items_strict(rem, alive, failAt, folder, item_type, max_depth, nas_items, i, st) ==
    IF i > Len(nas_items) THEN st
    ELSE LET item == nas_items[i]
             item_path == join(folder, item.filename)
             after ==
                 IF item.filename \in {".", ".."} THEN st
                 ELSE IF item.isDirectory
                 THEN traverse_nas_folder(
                          rem, alive, failAt, item_path, item_type, max_depth,
                          IF item_type = "folders"
                          THEN [st EXCEPT !.items = Append(@, item_path)]
                          ELSE st)
                 ELSE IF item_type \in {"files", "both"}
                 THEN [st EXCEPT !.items = Append(@, item_path)]
                 ELSE st
         IN traverse_items_strict(rem, alive, failAt, folder, item_type,
                                  max_depth, nas_items, i + 1, after)

\* for item in nas_items: ... (lines 264-272)
traverse_items(rem, alive, failAt, folder, item_type, max_depth, nas_items, i, st) ==
    IF i > Len(nas_items) THEN st
    ELSE LET item == nas_items[i]
             item_path == join(folder, item.filename)
             after ==
                 IF item.filename \in {".", ".."} THEN st
                 ELSE IF item.isDirectory
                 THEN traverse_nas_folder(
                          rem, alive, failAt, item_path, item_type, max_depth,
                          IF item_type \in {"folders", "both"}
                          THEN [st EXCEPT !.items = Append(@, item_path)]
                          ELSE st)
                 ELSE IF item_type \in {"files", "both"}
                 THEN [st EXCEPT !.items = Append(@, item_path)]
                 ELSE st
         IN traverse_items(rem, alive, failAt, folder, item_type, max_depth,
                           nas_items, i + 1, after)

\* traverse_nas_folder whose handler drops the items found so far.
traverse_nas_folder_reset(rem, alive, failAt, nas_folder_path, item_type, max_depth, st) ==
    IF max_depth # NoDepth /\ current_depth(nas_folder_path) > max_depth THEN st
    ELSE IF ~alive \/ nas_folder_path = failAt
    THEN [st EXCEPT !.items = <<>>, !.unlisted = @ \cup {nas_folder_path}]
    ELSE traverse_items(rem, alive, failAt, nas_folder_path, item_type, max_depth,
                        listPath(rem, nas_folder_path), 1,
                        [st EXCEPT !.walked = @ \cup {nas_folder_path}])

\* traverse_nas_folder(share, nas_folder_path, item_type, max_depth): the
\* listPath of failAt raises, and every listPath raises when the connection
\* is not alive; the exception is caught and printed and the items found so
\* far are returned.
traverse_nas_folder(rem, alive, failAt, nas_folder_path, item_type, max_depth, st) ==
    IF max_depth # NoDepth /\ current_depth(nas_folder_path) > max_depth THEN st
    ELSE IF ~alive \/ nas_folder_path = failAt
    THEN [st EXCEPT !.unlisted = @ \cup {nas_folder_path}]
    ELSE traverse_items(rem, alive, failAt, nas_folder_path, item_type, max_depth,
                        listPath(rem, nas_folder_path), 1,
                        [st EXCEPT !.walked = @ \cup {nas_folder_path}])

\* ------------------------------------------------------------------- sync
\* f"{nas_folder_path}{nas_folder_name}": the name is put right after the
\* last character of the path, with no separator added.
new_folder_path(nas_folder_path, nas_folder_name) ==
    [nas_folder_path EXCEPT ![Len(nas_folder_path)] = @ \o nas_folder_name]

\* f"{new_folder_path}/{filename}"
remote_file_path(folder_path, filename) == Append(folder_path, filename)

\* Whether listPath finds the folder.
folder_exists(rem, path) ==
    \/ FolderOf(path) \in DirPaths
    \/ FolderOf(path) \in NewDirPaths /\ rem[FolderOf(path)].exists

\* folder_names: the names of the folders listed in nas_folder_path, without
\* "." and "..".
folder_names(rem, nas_folder_path) ==
    LET l == listPath(rem, nas_folder_path)
    IN {l[i].filename : i \in {j \in 1 .. Len(l) :
                                  l[j].isDirectory /\ l[j].filename \notin {".", ".."}}}

\* existing_filenames comparing whole paths with names: nothing matches.
existing_filenames_none(existing_files) == {}

\* existing_filenames = [file.filename for file in existing_files]
existing_filenames(existing_files) ==
    {existing_files[i].filename : i \in 1 .. Len(existing_files)}

\* The state of the loop over os.listdir(local_folder): the share, the local
\* files, the remote paths written, the local names dropped as small,
\* skipped as existing and removed after a write, whether a ValueError ended
\* the loop, and the exception that left the method.
CopyStart(rem, files) ==
    [remote |-> rem, files |-> files, written |-> {}, dropped |-> {},
     skipped |-> {}, removed_local |-> {}, failed |-> {}, stopped |-> FALSE,
     exc |-> "none"]

\* if delete_small_images and os.path.getsize(local_file_path) < 10000
is_small_image(delete_small_images, content) ==
    delete_small_images /\ file_size(content) < MinImageSize

\* store_local_file removing the local file of a move before the write.
store_local_file_remove_first(st, filename, path, content, move_files, stored, t) ==
    LET moved == [st EXCEPT
                    !.files[filename] = IF move_files THEN 0 ELSE @,
                    !.removed_local = IF move_files THEN @ \cup {filename} ELSE @]
    IN IF stored = "ValueError"
       THEN [moved EXCEPT !.stopped = TRUE, !.failed = @ \cup {path}]
       ELSE IF stored # "ok"
       THEN [moved EXCEPT !.exc = stored, !.failed = @ \cup {path}]
       ELSE [moved EXCEPT
               !.remote[path] = [exists |-> TRUE, content |-> content,
                                 create_time |-> t],
               !.written = @ \cup {path}]

\* self.conn.storeFile(share, remote_file_path, BytesIO(file_bytes)) and,
\* when it returned, os.remove(local_file_path) if move_files (lines
\* 219-227).  A ValueError ends the loop (line 228); another exception
\* leaves the method.
store_local_file(st, filename, path, content, move_files, stored, t) ==
    IF stored = "ValueError"
    THEN [st EXCEPT !.stopped = TRUE, !.failed = @ \cup {path}]
    ELSE IF stored # "ok"
    THEN [st EXCEPT !.exc = stored, !.failed = @ \cup {path}]
    ELSE [st EXCEPT
            !.remote[path] = [exists |-> TRUE, content |-> content,
                              create_time |-> t],
            !.written = @ \cup {path},
            !.files[filename] = IF move_files THEN 0 ELSE @,
            !.removed_local = IF move_files THEN @ \cup {filename} ELSE @]

\* for filename in os.listdir(local_folder): ... (lines 201-227); names is
\* the order of os.listdir, fault the storeFile call that raises, t the
\* creation time the server gives to the files written.
RECURSIVE copy_local_files(_, _, _, _, _, _, _, _, _)
copy_local_files(names, i, existing_files, folder_path, delete_small_images, move_files, fault, t, st) ==
    IF i > Len(names) \/ st.stopped \/ st.exc # "none" THEN st
    ELSE LET filename == names[i]
             content == st.files[filename]
             path == remote_file_path(folder_path, filename)
             stored == IF fault.path = path THEN fault.kind ELSE "ok"
             after ==
                 IF content = 0 THEN st
                 ELSE IF is_small_image(delete_small_images, content)
                 THEN [st EXCEPT !.files[filename] = 0,
                                 !.dropped = @ \cup {filename}]
                 ELSE IF filename \in existing_filenames(existing_files)
                 THEN [st EXCEPT !.skipped = @ \cup {filename}]
                 ELSE store_local_file(st, filename, path, content, move_files,
                                       stored, t)
         IN copy_local_files(names, i + 1, existing_files, folder_path,
                             delete_small_images, move_files, fault, t, after)

\* ----------------------------------------------------------------- state
\* No local folder is in use.
NoLocal == [exists |-> FALSE, files |-> [n \in LocalFileNames |-> 0]]

Paths(records) == {records[i].path : i \in 1 .. Len(records)}

\* No rebuild has completed, or the index was changed since.
NotBuilt ==
    [root |-> NoPath, remote |-> [p \in RemotePaths |-> Absent], index |-> <<>>]

\* What the last step did: the method, the exception that left it, the
\* index, file and share it started from, its arguments and its effects.
NoOp ==
    [op |-> "none", exc |-> "none",
     pre |-> <<>>, predisk |-> Missing, preremote |-> [p \in RemotePaths |-> Absent],
     root |-> NoPath, flag |-> FALSE, loaded |-> FALSE, hashed |-> {},
     size_limit |-> 0, answer |-> "none", listed |-> {},
     group |-> <<>>, choice |-> "no", removed |-> {}, failed |-> {},
     prebuilt |-> NotBuilt, pretemp |-> <<>>, raisedAt |-> NoPath,
     returned |-> <<>>, item_type |-> "none", max_depth |-> NoDepth,
     walked |-> {}, unlisted |-> {},
     target |-> NoPath, name |-> "", delete_small |-> FALSE, move |-> FALSE,
     prelocal |-> NoLocal, written |-> {}, dropped |-> {}, skipped |-> {},
     removed_local |-> {},
     found |-> <<>>, gone |-> {}, missed |-> {}]

Op(name) ==
    [NoOp EXCEPT !.op = name, !.pre = image_data, !.predisk = disk,
                 !.preremote = remote]

\* The workflow starts on a share where the folder e is empty and the other
\* files exist.
Init ==
    /\ conn = "none"
    /\ image_data = <<>>
    /\ temp_image_data = <<>>
    /\ disk \in {Missing, Corrupt}
    /\ \E r \in [FilePaths \ {<<"P", "e", "f">>} -> FileStates \ {Absent}] :
          remote = [p \in RemotePaths |-> IF p \in DOMAIN r THEN r[p] ELSE Absent]
    /\ pc = "idle"
    /\ duplicates = <<>>
    /\ date_choice = "no"
    /\ shown = {}
    /\ last = NoOp
    /\ built = NotBuilt
    /\ changes = 0
    /\ local = NoLocal
    /\ copies = 0

\* ------------------------------------------------------ cleanup_nas_images
\* self.connect(): the connection is made ("ok"), a ValueError is caught and
\* printed, or the assert (or a socket error) leaves cleanup_nas_images.
Connect(result) ==
    /\ pc = "idle"
    /\ conn' = IF result = "ok" THEN "open" ELSE "broken"
    /\ pc' = IF result = "refused" THEN "raised" ELSE "load"
    /\ last' = [Op("connect") EXCEPT
                  !.exc = IF result = "refused" THEN "AssertionError" ELSE "none"]
    /\ duplicates' = <<>>
    /\ date_choice' = "no"
    /\ shown' = {}
    /\ UNCHANGED <<built, image_data, temp_image_data, disk, remote, changes>>
    /\ UNCHANGED <<local, copies>>

\* self.load_db()
LoadDb ==
    /\ pc = "load"
    /\ LET r == load_db(disk, image_data)
       IN /\ image_data' = r.image_data
          /\ last' = [Op("load_db") EXCEPT !.loaded = r.ok]
    /\ pc' = "update"
    /\ UNCHANGED <<built, conn, temp_image_data, disk, remote, duplicates, date_choice,
                   shown, changes>>
    /\ UNCHANGED <<local, copies>>

\* rebuilt_index extending the index instead of replacing it.
rebuilt_index_merged(data, temp) == data \o temp

\* self.image_data = self.temp_image_data.copy()
rebuilt_index(data, temp) == temp

\* The path p is the folder or lies below it.
IsUnder(p, folder) ==
    Len(p) >= Len(folder) /\ SubSeq(p, 1, Len(folder)) = folder

\* rebuild_wanted looking at the argument only.
rebuild_wanted_by_argument(loaded, update_db) == update_db

\* if self.load_db() or update_db
rebuild_wanted(loaded, update_db) == loaded \/ update_db

\* if self.load_db() or update_db: self.update_db(share, nas_folder_path)
\* The argument update_db (flag) is read only when load_db() returned False:
\* it is FALSE here when load_db() returned True.
UpdateDb(flag, nas_folder_path, failAt) ==
    /\ pc = "update"
    /\ rebuild_wanted(last.loaded, flag)
    /\ last.loaded => ~flag
    /\ failAt = NoPath \/ IsUnder(failAt, nas_folder_path)
    /\ LET st == recursive_hashes(remote, image_data, conn = "open", failAt,
                                  nas_folder_path, WalkStart)
       IN /\ last' = [Op("update_db") EXCEPT
                        !.root = nas_folder_path, !.flag = flag,
                        !.prebuilt = built, !.pretemp = temp_image_data,
                        !.raisedAt = st.raisedAt,
                        !.loaded = last.loaded, !.hashed = st.hashed,
                        !.exc = IF st.exc THEN "OperationFailure" ELSE "none"]
          /\ IF st.exc
             THEN /\ temp_image_data' = st.temp
                  /\ pc' = "raised"
                  /\ UNCHANGED <<image_data, disk, built>>
             ELSE /\ image_data' = rebuilt_index(image_data, st.temp)
                  /\ temp_image_data' = <<>>
                  /\ disk' = save_db(image_data')
                  /\ built' = [root |-> nas_folder_path, remote |-> remote,
                               index |-> image_data']
                  /\ pc' = "size"
    /\ UNCHANGED <<conn, remote, duplicates, date_choice, shown, changes>>
    /\ UNCHANGED <<local, copies>>

\* load_db() returned False and the argument update_db is False.
SkipUpdate ==
    /\ pc = "update"
    /\ ~rebuild_wanted(last.loaded, FALSE)
    /\ last' = Op("no_update")
    /\ pc' = "size"
    /\ UNCHANGED <<built, conn, image_data, temp_image_data, disk, remote, duplicates,
                   date_choice, shown, changes>>
    /\ UNCHANGED <<local, copies>>

\* input(...).strip().lower(): the answers typed in the model.
strip_lower(answer) ==
    IF answer \in {"yes", " YES "} THEN "yes"
    ELSE IF answer = "No" THEN "no"
    ELSE answer

\* confirmed accepting the short answer too.
confirmed_lenient(answer) == strip_lower(answer) \in {"yes", "y"}

\* if confirm_delete == 'yes'
confirmed(answer) == strip_lower(answer) = "yes"

\* delete_files_by_size(share, size_limit), called when
\* delete_files_smaller_than > 0.  With an answer other than yes,
\* deleted_files is unbound at line 111 and the method raises.
DeleteFilesBySize(size_limit, answer, fault) ==
    /\ pc = "size"
    /\ size_limit > 0
    /\ LET impacted_files == impacted_by_size(image_data, size_limit)
           st == delete_impacted(impacted_files, conn = "open", fault,
                                 LoopStart(remote))
       IN IF impacted_files = <<>>
          THEN /\ answer = "yes" /\ fault = NoFault   \* neither is read
               /\ last' = [Op("delete_files_by_size") EXCEPT
                             !.size_limit = size_limit]
               /\ pc' = "dups"
               /\ UNCHANGED <<image_data, disk, remote, built>>
          ELSE IF ~confirmed(answer)
          THEN /\ fault = NoFault                       \* not read
               /\ last' = [Op("delete_files_by_size") EXCEPT
                             !.size_limit = size_limit,
                             !.answer = strip_lower(answer),
                             !.listed = Paths(impacted_files),
                             !.exc = "UnboundLocalError"]
               /\ pc' = "raised"
               /\ UNCHANGED <<image_data, disk, remote, built>>
          ELSE /\ fault = NoFault \/ fault.path \in Paths(impacted_files)
               /\ last' = [Op("delete_files_by_size") EXCEPT
                             !.size_limit = size_limit,
                             !.answer = strip_lower(answer),
                             !.listed = Paths(impacted_files),
                             !.removed = st.removed, !.failed = st.failed,
                             !.exc = st.exc]
               /\ remote' = st.remote
               /\ IF st.exc # "none"
                  THEN /\ pc' = "raised"
                       /\ UNCHANGED <<image_data, disk, built>>
                  ELSE /\ image_data' = not_in_deleted(image_data, st.deleted_files)
                       /\ disk' = save_db(image_data')
                       /\ built' = NotBuilt
                       /\ pc' = "dups"
    /\ UNCHANGED <<conn, temp_image_data, duplicates, date_choice, shown, changes>>
    /\ UNCHANGED <<local, copies>>

\* delete_files_smaller_than is 0.
SkipSize ==
    /\ pc = "size"
    /\ last' = Op("no_size")
    /\ pc' = "dups"
    /\ UNCHANGED <<built, conn, image_data, temp_image_data, disk, remote, duplicates,
                   date_choice, shown, changes>>
    /\ UNCHANGED <<local, copies>>

RECURSIVE GroupPaths(_)
GroupPaths(groups) ==
    IF groups = <<>> THEN {}
    ELSE Paths(Head(groups)) \cup GroupPaths(Tail(groups))

\* duplicates = self.find_duplicates_in_db(), and the printing of every
\* group, when delete_duplicates is 'older' or 'newer'.
FindDuplicates(choice) ==
    /\ pc = "dups"
    /\ choice \in {"older", "newer"}
    /\ duplicates' = find_duplicates_in_db(image_data)
    /\ date_choice' = choice
    /\ shown' = GroupPaths(duplicates')
    /\ last' = [Op("find_duplicates_in_db") EXCEPT !.choice = choice,
                                                   !.found = image_data]
    /\ pc' = IF duplicates' = <<>> THEN "disconnect" ELSE "resolve"
    /\ UNCHANGED <<built, conn, image_data, temp_image_data, disk, remote, changes>>
    /\ UNCHANGED <<local, copies>>

\* SkipDuplicates placed before the size cleanup.
SkipDuplicates_then_size ==
    /\ pc = "dups"
    /\ last' = Op("no_duplicates")
    /\ pc' = "size"
    /\ UNCHANGED <<built, conn, image_data, temp_image_data, disk, remote, duplicates,
                   date_choice, shown, changes>>
    /\ UNCHANGED <<local, copies>>

\* delete_duplicates is neither 'older' nor 'newer'.
SkipDuplicates ==
    /\ pc = "dups"
    /\ last' = Op("no_duplicates")
    /\ pc' = "disconnect"
    /\ UNCHANGED <<built, conn, image_data, temp_image_data, disk, remote, duplicates,
                   date_choice, shown, changes>>
    /\ UNCHANGED <<local, copies>>

\* files_to_delete taking the whole group.
files_to_delete_all(duplicate_group) == duplicate_group

\* files_to_delete = duplicate_group[1:]
files_to_delete(duplicate_group) == Tail(duplicate_group)

\* self.delete_duplicates(share, dup_group, delete_duplicates) for the next
\* group of the loop.  The step keeps, for the whole loop, the index the
\* groups were found in and the paths deleted and missed so far.
DeleteDuplicates(fault) ==
    /\ pc = "resolve"
    /\ duplicates # <<>>
    /\ LET duplicate_group == sorted_group(Head(duplicates), date_choice)
           to_delete == files_to_delete(duplicate_group)
           st == delete_group(to_delete, conn = "open", fault,
                              LoopStart(remote))
       IN /\ fault = NoFault \/ fault.path \in Paths(to_delete)
          /\ last' = [Op("delete_duplicates") EXCEPT
                        !.group = Head(duplicates), !.choice = date_choice,
                        !.removed = st.removed, !.failed = st.failed,
                        !.found = last.found,
                        !.gone = last.gone \cup st.removed,
                        !.missed = last.missed \cup st.failed,
                        !.exc = st.exc]
          /\ remote' = st.remote
          /\ IF st.exc # "none"
             THEN /\ pc' = "raised"
                  /\ UNCHANGED <<image_data, disk, duplicates, built>>
             ELSE /\ image_data' = not_in_deleted(image_data, st.deleted_files)
                  /\ disk' = save_db(image_data')
                  /\ built' = NotBuilt
                  /\ duplicates' = Tail(duplicates)
                  /\ pc' = IF duplicates' = <<>> THEN "disconnect" ELSE "resolve"
    /\ UNCHANGED <<conn, temp_image_data, date_choice, shown, changes>>
    /\ UNCHANGED <<local, copies>>

\* self.disconnect()
Disconnect ==
    /\ pc = "disconnect"
    /\ conn' = "none"
    /\ last' = Op("disconnect")
    /\ pc' = "idle"
    /\ UNCHANGED <<built, image_data, temp_image_data, disk, remote, duplicates,
                   date_choice, shown, changes>>
    /\ UNCHANGED <<local, copies>>

\* The program ended, by an exception that left the method it called or
\* after copy_files_to_nas_photos_library returned; the next run is made by
\* a new program, with a new Nas object (__init__) and the file, the share
\* and the local folder as they were left.
Restart ==
    /\ pc \in {"raised", "done"}
    /\ conn' = "none"
    /\ image_data' = <<>>
    /\ temp_image_data' = <<>>
    /\ duplicates' = <<>>
    /\ date_choice' = "no"
    /\ shown' = {}
    /\ last' = NoOp
    /\ pc' = "idle"
    /\ UNCHANGED <<disk, remote, built, changes>>
    /\ UNCHANGED <<local, copies>>

\* An exception left cleanup_nas_images and the caller caught it: the next
\* run is made on the same Nas object, with its fields as they were left.
Retry ==
    /\ pc = "raised"
    /\ last' = [NoOp EXCEPT !.op = "retry", !.pre = image_data]
    /\ pc' = "idle"
    /\ UNCHANGED <<conn, image_data, temp_image_data, disk, remote, duplicates,
                   date_choice, shown, built, changes>>
    /\ UNCHANGED <<local, copies>>

\* Between two runs, another client of the share rewrites or deletes a file
\* (a change made before the first index is saved is another initial
\* share).
RemoteChange(p, s) ==
    /\ pc = "idle"
    /\ changes < MaxRemoteChanges
    /\ disk.valid
    /\ remote[p].exists
    /\ s \in {Absent, [remote[p] EXCEPT !.content = (@ % NumContents) + 1]}
    /\ remote' = [remote EXCEPT ![p] = s]
    /\ changes' = changes + 1
    /\ last' = [NoOp EXCEPT !.op = "remote_change", !.pre = image_data]
    /\ UNCHANGED <<built, conn, image_data, temp_image_data, disk, pc, duplicates,
                   date_choice, shown>>
    /\ UNCHANGED <<local, copies>>

\* Between two runs, the caller lists the small files of the index of the
\* object: list_small_files(nas.image_data, size_limit).
ListSmallFiles(size_limit) ==
    /\ pc = "idle"
    /\ image_data # <<>>
    /\ last' = [Op("list_small_files") EXCEPT
                  !.size_limit = size_limit,
                  !.returned = list_small_files(image_data, size_limit)]
    /\ UNCHANGED <<conn, image_data, temp_image_data, disk, remote, pc,
                   duplicates, date_choice, shown, built, changes>>
    /\ UNCHANGED <<local, copies>>

\* Between two runs, the file image_data_filename is removed or damaged
\* outside the program: load_db then finds no file, or a file that json.load
\* cannot parse.
IndexFileChange(file) ==
    /\ pc = "idle"
    /\ changes < MaxRemoteChanges
    /\ disk.valid
    /\ file \in {Missing, Corrupt}
    /\ disk' = file
    /\ built' = NotBuilt
    /\ changes' = changes + 1
    /\ last' = [NoOp EXCEPT !.op = "file_change", !.pre = image_data]
    /\ UNCHANGED <<conn, image_data, temp_image_data, remote, pc, duplicates,
                   date_choice, shown>>
    /\ UNCHANGED <<local, copies>>

Roots == {<<"P">>, <<"P", "d">>}
\* The remote calls that may raise during a walk: the listing of the folder
\* d and the retrieval of the file c.
FailPoints == {NoPath, <<"P", "d">>, <<"P", "d", "c">>}
Answers == {"yes", " YES ", "No", "y"}

Next ==
    \/ \E result \in {"ok", "ValueError", "refused"} : Connect(result)
    \/ LoadDb
    \/ \E flag \in BOOLEAN, root \in Roots, failAt \in FailPoints :
          UpdateDb(flag, root, failAt)
    \/ SkipUpdate
    \/ \E size_limit \in 1 .. NumContents, answer \in Answers, fault \in Faults :
          DeleteFilesBySize(size_limit, answer, fault)
    \/ SkipSize
    \/ \E choice \in {"older", "newer"} : FindDuplicates(choice)
    \/ SkipDuplicates
    \/ \E fault \in Faults : DeleteDuplicates(fault)
    \/ Disconnect
    \/ Restart
    \/ Retry
    \/ \E p \in FilePaths, s \in FileStates : RemoteChange(p, s)
    \/ \E file \in {Missing, Corrupt} : IndexFileChange(file)
    \/ \E size_limit \in 1 .. NumContents : ListSmallFiles(size_limit)

Spec == Init /\ [][Next]_vars

\* ------------------------------------------- traversal by a user of the class
\* The shares a traversal is made on: each file exists or not.
TraverseInit ==
    /\ conn = "none"
    /\ image_data = <<>>
    /\ temp_image_data = <<>>
    /\ disk = Missing
    /\ \E r \in [FilePaths -> {Absent, [exists |-> TRUE, content |-> 1,
                                         create_time |-> 1]}] :
          remote = [p \in RemotePaths |-> IF p \in DOMAIN r THEN r[p] ELSE Absent]
    /\ pc = "idle"
    /\ duplicates = <<>>
    /\ date_choice = "no"
    /\ shown = {}
    /\ last = NoOp
    /\ built = NotBuilt
    /\ changes = 0
    /\ local = NoLocal
    /\ copies = 0

\* nas.traverse_nas_folder(share, nas_folder_path, item_type, max_depth),
\* called after nas.connect() and before nas.disconnect().
Traverse(nas_folder_path, item_type, max_depth, failAt) ==
    /\ pc = "load"
    /\ LET st == traverse_nas_folder(remote, conn = "open", failAt, nas_folder_path,
                                     item_type, max_depth, TraverseStart)
       IN last' = [Op("traverse_nas_folder") EXCEPT
                     !.root = nas_folder_path, !.item_type = item_type,
                     !.max_depth = max_depth, !.returned = st.items,
                     !.walked = st.walked, !.unlisted = st.unlisted]
    /\ pc' = "disconnect"
    /\ UNCHANGED <<conn, image_data, temp_image_data, disk, remote, duplicates,
                   date_choice, shown, built, changes>>
    /\ UNCHANGED <<local, copies>>

ItemTypes == {"files", "folders", "both"}
MaxDepths == {NoDepth, 0, 1, 2}
ListFailPoints == {NoPath} \cup DirPaths

TraverseNext ==
    \/ \E result \in {"ok", "ValueError", "refused"} : Connect(result)
    \/ \E root \in DirPaths, item_type \in ItemTypes, max_depth \in MaxDepths,
          failAt \in ListFailPoints :
          Traverse(root, item_type, max_depth, failAt)
    \/ Disconnect
    \/ Restart

TraverseSpec == TraverseInit /\ [][TraverseNext]_vars

\* ------------------------------------------------- rebuild of a loaded index
\* The records that an index file written outside the program can hold: a
\* file may have records with different contents.
LoadedRecords ==
    {[path |-> p, hash |-> md5(c), creation_date |-> 1, size |-> file_size(c)] :
        p \in {<<"P", "a">>, <<"P", "d", "c">>}, c \in 1 .. NumContents}

\* The lists of at most n records.
RECURSIVE Lists(_)
Lists(n) ==
    IF n = 0 THEN {<<>>}
    ELSE Lists(n - 1) \cup
         {Append(l, r) : l \in {x \in Lists(n - 1) : Len(x) = n - 1},
                         r \in LoadedRecords}

\* A new object and an index file that json.load can parse, written by
\* another program or by hand: a list of records in any order, where a path
\* can have several records.
LoadedInit ==
    /\ conn = "none"
    /\ image_data = <<>>
    /\ temp_image_data = <<>>
    /\ \E data \in Lists(MaxLoaded) : disk = save_db(data)
    /\ \E r \in [FilePaths \ {<<"P", "e", "f">>} -> FileStates \ {Absent}] :
          remote = [p \in RemotePaths |-> IF p \in DOMAIN r THEN r[p] ELSE Absent]
    /\ pc = "idle"
    /\ duplicates = <<>>
    /\ date_choice = "no"
    /\ shown = {}
    /\ last = NoOp
    /\ built = NotBuilt
    /\ changes = 0
    /\ local = NoLocal
    /\ copies = 0

\* The start of cleanup_nas_images, up to the end of update_db.
LoadedNext ==
    \/ \E result \in {"ok", "ValueError", "refused"} : Connect(result)
    \/ LoadDb
    \/ \E flag \in BOOLEAN, root \in Roots, failAt \in FailPoints :
          UpdateDb(flag, root, failAt)
    \/ Restart

LoadedSpec == LoadedInit /\ [][LoadedNext]_vars

\* ------------------------------------------- resolution of several groups
\* The workflow on a share where the four files exist, so that the index
\* can hold two groups of duplicates.
ResolveInit ==
    /\ conn = "none"
    /\ image_data = <<>>
    /\ temp_image_data = <<>>
    /\ disk = Missing
    /\ \E r \in [FilePaths -> FileStates \ {Absent}] :
          remote = [p \in RemotePaths |-> IF p \in DOMAIN r THEN r[p] ELSE Absent]
    /\ pc = "idle"
    /\ duplicates = <<>>
    /\ date_choice = "no"
    /\ shown = {}
    /\ last = NoOp
    /\ built = NotBuilt
    /\ changes = 0
    /\ local = NoLocal
    /\ copies = 0

\* cleanup_nas_images(share, 'P', update_db=True, delete_duplicates=choice),
\* without size cleanup.
ResolveNext ==
    \/ \E result \in {"ok", "ValueError", "refused"} : Connect(result)
    \/ LoadDb
    \/ \E flag \in BOOLEAN : UpdateDb(flag, <<"P">>, NoPath)
    \/ SkipSize
    \/ \E choice \in {"older", "newer"} : FindDuplicates(choice)
    \/ \E fault \in Faults : DeleteDuplicates(fault)
    \/ Disconnect
    \/ Restart

ResolveSpec == ResolveInit /\ [][ResolveNext]_vars

\* ---------------------------------------------- copy to the photos library
\* A new object, a share where the file f of the folder e exists or not, and
\* a local folder with up to two files.
CopyInit ==
    /\ conn = "none"
    /\ image_data = <<>>
    /\ temp_image_data = <<>>
    /\ disk = Missing
    /\ \E s \in {Absent, [exists |-> TRUE, content |-> 1, create_time |-> 1]} :
          remote = [p \in RemotePaths |->
                      IF p = <<"P", "a">>
                      THEN [exists |-> TRUE, content |-> 1, create_time |-> 1]
                      ELSE IF p = <<"P", "e", "f">> THEN s
                      ELSE Absent]
    /\ pc = "idle"
    /\ duplicates = <<>>
    /\ date_choice = "no"
    /\ shown = {}
    /\ last = NoOp
    /\ built = NotBuilt
    /\ changes = 0
    /\ \E files \in [LocalFileNames -> {0} \cup LocalContents] :
          local = [exists |-> TRUE, files |-> files]
    /\ copies = 0

\* copy_files_to_nas_photos_library(local_folder, share, nas_folder_path,
\* nas_folder_name, delete_small_images, move_files): result is the outcome
\* of self.connect(), names the order of os.listdir, fault the storeFile
\* call that raises.  An exception other than the ValueError of the loop
\* leaves the method at once.
CopyFiles(result, nas_folder_path, nas_folder_name, delete_small_images, move_files, names, fault, t) ==
    /\ pc = "idle"
    /\ copies < MaxCopies
    /\ copies' = copies + 1
    /\ LET folder_path == new_folder_path(nas_folder_path, nas_folder_name)
           made == nas_folder_name \notin folder_names(remote, nas_folder_path)
           rem1 == IF made /\ FolderOf(folder_path) \in NewDirPaths
                   THEN [remote EXCEPT ![FolderOf(folder_path)] =
                            [exists |-> TRUE, content |-> 0, create_time |-> 0]]
                   ELSE remote
           before ==
               IF result = "refused" THEN "AssertionError"
               ELSE IF result # "ok" THEN "NotConnectedError"
               ELSE IF made /\ folder_exists(remote, folder_path) THEN "OperationFailure"
               ELSE IF ~folder_exists(rem1, folder_path) THEN "OperationFailure"
               ELSE IF ~local.exists THEN "FileNotFoundError"
               ELSE "none"
           existing_files == listPath(rem1, folder_path)
           st == copy_local_files(names, 1, existing_files, folder_path,
                                  delete_small_images, move_files, fault, t,
                                  CopyStart(rem1, local.files))
           exc == IF before # "none" THEN before ELSE st.exc
           done == [Op("copy_files_to_nas_photos_library") EXCEPT
                      !.root = nas_folder_path, !.target = folder_path,
                      !.name = nas_folder_name,
                      !.delete_small = delete_small_images, !.move = move_files,
                      !.prelocal = local, !.exc = exc]
       IN /\ fault = NoFault \/
               (before = "none" /\ \E n \in LocalFileNames :
                   fault.path = remote_file_path(folder_path, n))
          /\ result = "ok" \/ (~delete_small_images /\ ~move_files)
          /\ conn' = IF result # "ok" THEN "broken"
                     ELSE IF exc # "none" THEN "open" ELSE "none"
          /\ IF before # "none"
             THEN /\ (names = <<"f", "g">> /\ t = 1)          \* neither is read
                  /\ remote' = IF result = "ok" /\ before # "OperationFailure"
                               THEN rem1 ELSE remote
                  /\ last' = done
                  /\ pc' = "raised"
                  /\ UNCHANGED <<local, image_data, temp_image_data, disk, built>>
             ELSE \E c \in {st} :
                  /\ t = 1 \/ c.written # {}                 \* t is not read
                  /\ names = <<"f", "g">> \/
                       \A n \in LocalFileNames : local.files[n] # 0
                  /\ remote' = c.remote
                  /\ IF c.exc # "none"
                     THEN /\ local' = [local EXCEPT !.files = c.files]
                          /\ last' = [done EXCEPT
                                        !.written = c.written, !.dropped = c.dropped,
                                        !.skipped = c.skipped,
                                        !.removed_local = c.removed_local,
                                        !.failed = c.failed]
                          /\ pc' = "raised"
                          /\ UNCHANGED <<image_data, temp_image_data, disk, built>>
                     ELSE \E w \in {recursive_hashes(c.remote, image_data, TRUE, NoPath,
                                                      nas_folder_path, WalkStart)} :
                          /\ local' =
                               [exists |-> ~(move_files /\
                                             \A n \in LocalFileNames : c.files[n] = 0),
                                files |-> c.files]
                          /\ last' = [done EXCEPT
                                        !.written = c.written, !.dropped = c.dropped,
                                        !.skipped = c.skipped,
                                        !.removed_local = c.removed_local,
                                        !.failed = c.failed,
                                        !.hashed = w.hashed]
                          /\ image_data' = rebuilt_index(image_data, w.temp)
                          /\ temp_image_data' = <<>>
                          /\ disk' = save_db(image_data')
                          /\ built' = [root |-> nas_folder_path, remote |-> c.remote,
                                       index |-> image_data']
                          /\ pc' = "done"
    /\ UNCHANGED <<duplicates, date_choice, shown, changes>>

\* The remote paths that storeFile can be called with.
StorePaths == NewFilePaths \cup {<<"P", "e", "f">>}

CopyNext ==
    \/ \E result \in {"ok", "ValueError", "refused"},
          nas_folder_path \in {<<"P", "">>, <<"P">>}, nas_folder_name \in {"e", "n"},
          delete_small_images \in BOOLEAN, move_files \in BOOLEAN,
          names \in {<<"f", "g">>, <<"g", "f">>},
          fault \in {NoFault} \cup [path : StorePaths, kind : {"ValueError", "OperationFailure"}],
          t \in Times :
          CopyFiles(result, nas_folder_path, nas_folder_name, delete_small_images,
                    move_files, names, fault, t)
    \/ Restart

CopySpec == CopyInit /\ [][CopyNext]_vars

\* ================================================================ claims
\* The position of the record delete_duplicates must keep: the first record
\* of the group, in the group's order, among those with the smallest
\* ('older') or the largest ('newer') creation time.
SurvivorIndex(g, choice) ==
    CHOOSE i \in 1 .. Len(g) :
        /\ \A j \in 1 .. Len(g) :
              IF choice = "older"
              THEN g[i].creation_date <= g[j].creation_date
              ELSE g[i].creation_date >= g[j].creation_date
        /\ \A j \in 1 .. i - 1 : g[j].creation_date # g[i].creation_date

Resolved == last.op = "delete_duplicates"
ResolvedAllDeleted == Resolved /\ last.exc = "none" /\ last.failed = {}

C2_ResolveFrame ==
    ResolvedAllDeleted =>
        LET g == last.group
            k == SurvivorIndex(g, last.choice)
            Kept(r) == ~InSeq(r, g) \/ r = g[k]
        IN /\ \A i \in (1 .. Len(g)) \ {k} :
                 /\ last.preremote[g[i].path].exists
                 /\ ~remote[g[i].path].exists
                 /\ g[i].path \notin Paths(image_data)
           /\ remote[g[k].path] = last.preremote[g[k].path]
           /\ InSeq(g[k], image_data)
           /\ image_data = SelectSeq(last.pre, Kept)
           /\ \A p \in FilePaths \ Paths(g) : remote[p] = last.preremote[p]

\* A group of two was resolved in an index that also held another record.
C2_Witness ==
    /\ ResolvedAllDeleted
    /\ Len(last.group) = 2
    /\ Len(last.pre) = 3
    /\ Len(image_data) = 2

\* C3: find_duplicates_in_db returns a partition of the records whose digest
\* is shared: two records are in one group iff their digests are equal,
\* every group has at least two members, the groups are disjoint, and a
\* record with a unique digest is in no group.
C3_GroupsPartition ==
    last.op = "find_duplicates_in_db" =>
        LET data == last.pre
            InGroup(r, k) == InSeq(r, duplicates[k])
        IN /\ \A k \in 1 .. Len(duplicates) :
                 /\ Len(duplicates[k]) >= 2
                 /\ Cardinality(Paths(duplicates[k])) = Len(duplicates[k])
                 /\ \A n \in 1 .. Len(duplicates[k]) : InSeq(duplicates[k][n], data)
           /\ \A i, j \in 1 .. Len(data) :
                 i # j =>
                    ((\E k \in 1 .. Len(duplicates) :
                         InGroup(data[i], k) /\ InGroup(data[j], k))
                     <=> data[i].hash = data[j].hash)
           /\ \A i \in 1 .. Len(data) :
                 /\ Cardinality({k \in 1 .. Len(duplicates) : InGroup(data[i], k)}) <= 1
                 /\ (\A j \in 1 .. Len(data) : j # i => data[j].hash # data[i].hash)
                       => \A k \in 1 .. Len(duplicates) : ~InGroup(data[i], k)

\* An index of three records, two with one digest and one with another.
C3_Witness ==
    /\ last.op = "find_duplicates_in_db"
    /\ Len(last.pre) = 3
    /\ Len(duplicates) = 1
    /\ Len(duplicates[1]) = 2

\* C4: a remote file is deleted only after the affected paths were listed
\* and the confirmation prompt was answered yes.
C4_DeleteOnlyAfterConfirmation ==
    last.removed # {} =>
        /\ last.removed \subseteq (last.listed \cup shown)
        /\ last.answer = "yes"

\* C5: in delete_files_by_size with candidates and an answer other than yes,
\* no remote file is deleted and neither the index nor the persisted file
\* changes.
C5_NoDeleteWithoutYes ==
    (last.op = "delete_files_by_size" /\ last.listed # {} /\ last.answer # "yes") =>
        /\ last.removed = {}
        /\ remote = last.preremote
        /\ image_data = last.pre
        /\ disk = last.predisk

\* The prompt was shown for some candidates and answered no.
C5_Witness ==
    /\ last.op = "delete_files_by_size"
    /\ last.listed # {}
    /\ last.answer = "no"
    /\ last.pre # <<>>

\* C6: after a confirmed delete_files_by_size with every delete succeeding,
\* the index is the records with size > size_limit in their order and every
\* record with size <= size_limit is deleted remotely; with no record of
\* size <= size_limit nothing is prompted, deleted or changed.
C6_SizeCleanExact ==
    last.op = "delete_files_by_size" =>
        LET Larger(r) == r.size > last.size_limit
        IN /\ (last.exc = "none" /\ last.answer = "yes" /\ last.failed = {}) =>
                 /\ image_data = SelectSeq(last.pre, Larger)
                 /\ \A i \in 1 .. Len(last.pre) :
                       ~Larger(last.pre[i]) =>
                          /\ last.pre[i].path \in last.removed
                          /\ ~remote[last.pre[i].path].exists
           /\ (\A i \in 1 .. Len(last.pre) : Larger(last.pre[i])) =>
                 /\ last.answer = "none"
                 /\ last.listed = {}
                 /\ last.removed = {}
                 /\ remote = last.preremote
                 /\ image_data = last.pre
                 /\ disk = last.predisk

\* A confirmed cleanup of an index with a record at the limit and a record
\* above it.
C6_Witness ==
    /\ last.op = "delete_files_by_size"
    /\ last.exc = "none" /\ last.answer = "yes" /\ last.failed = {}
    /\ \E i, j \in 1 .. Len(last.pre) :
          /\ last.pre[i].size = last.size_limit
          /\ last.pre[j].size > last.size_limit

\* C7: in delete_duplicates, the record of a file whose remote delete failed
\* is still in the index and in the persisted index.
C7_FailedDeleteKeepsRecord ==
    Resolved =>
        \A i \in 1 .. Len(last.pre) :
            last.pre[i].path \in last.failed =>
                /\ InSeq(last.pre[i], image_data)
                /\ disk.valid /\ InSeq(last.pre[i], json_load(disk.text))

Rebuilt == last.op = "update_db" /\ last.exc = "none"

\* The files of the share below a folder.
FilesUnder(folder) == {p \in FilePaths : remote[p].exists /\ IsUnder(p, folder)}

\* C8: after a successful update_db, the paths of the index are the paths of
\* the files of the share below the root; records of paths no longer there
\* are dropped and no folder has a record.
C8_RebuildMatchesTree ==
    Rebuilt =>
        /\ Paths(image_data) = FilesUnder(last.root)
        /\ Paths(image_data) \cap DirPaths = {}
        /\ \A i \in 1 .. Len(last.pre) :
              last.pre[i].path \notin FilesUnder(last.root) =>
                 ~InSeq(last.pre[i], image_data)

\* A rebuild dropped the record of a file deleted remotely and the record of
\* a file outside the root.
C8_Witness ==
    /\ Rebuilt
    /\ image_data # <<>>
    /\ \E i, j \in 1 .. Len(last.pre) :
          /\ ~remote[last.pre[i].path].exists
          /\ remote[last.pre[j].path].exists
          /\ ~IsUnder(last.pre[j].path, last.root)

\* The record made by reading and hashing the file at p.
FreshRecord(p) ==
    [path |-> p, hash |-> md5(remote[p].content),
     creation_date |-> remote[p].create_time,
     size |-> file_size(remote[p].content)]

\* C9: a rebuild carries the existing record of a path into the new index
\* unchanged and does not read the file, also when the file has changed;
\* for every other file the record is computed by reading and hashing it.
C9_CarryForward ==
    Rebuilt =>
        \A p \in FilesUnder(last.root) :
            LET known == {j \in 1 .. Len(last.pre) : last.pre[j].path = p}
                now == {i \in 1 .. Len(image_data) : image_data[i].path = p}
            IN /\ Cardinality(now) = 1
               /\ \A i \in now :
                     IF known # {}
                     THEN /\ \E j \in known : image_data[i] = last.pre[j]
                          /\ p \notin last.hashed
                     ELSE /\ image_data[i] = FreshRecord(p)
                          /\ p \in last.hashed

\* A rebuild carried a record whose file has changed since, and hashed
\* another file.
C9_Witness ==
    /\ Rebuilt
    /\ \E i \in 1 .. Len(image_data) :
          /\ InSeq(image_data[i], last.pre)
          /\ image_data[i] # FreshRecord(image_data[i].path)
    /\ last.hashed # {}

\* The rebuild that just completed ran on the index left by a completed
\* rebuild of the same root, with the share unchanged in between.
RebuiltAgain ==
    /\ Rebuilt
    /\ last.prebuilt # NotBuilt
    /\ last.prebuilt.root = last.root
    /\ last.prebuilt.remote = remote

\* C10: a second update_db with the same root on an unchanged share leaves
\* the same records, in memory and in the file, as the first, and retrieves
\* no file that the first run indexed.
C10_IdempotentRebuild ==
    RebuiltAgain =>
        /\ image_data = last.prebuilt.index
        /\ disk = last.predisk
        /\ json_load(disk.text) = last.prebuilt.index
        /\ last.hashed \cap Paths(last.prebuilt.index) = {}

\* The second rebuild of an index of three records.
C10_Witness ==
    /\ RebuiltAgain
    /\ Len(image_data) = 3

\* C11: a rebuild that fails part-way leaves the live index and the
\* persisted file as they were, and the working set it leaves behind is not
\* part of the index of a later successful rebuild, which holds one record
\* for each file of the share below its root and nothing else.
C11_FailedRebuildKeepsIndex ==
    /\ (last.op = "update_db" /\ last.exc # "none") =>
          /\ image_data = last.pre
          /\ disk = last.predisk
    /\ Rebuilt =>
          /\ Len(image_data) = Cardinality(FilesUnder(last.root))
          /\ Paths(image_data) = FilesUnder(last.root)
          /\ temp_image_data = <<>>

\* A rebuild completed on the object whose previous rebuild had failed with
\* records in the working set.
C11_Witness ==
    /\ Rebuilt
    /\ last.pretemp # <<>>
    /\ last.pre # <<>>

\* C12: when the read of one file fails during a rebuild, the rebuild still
\* completes and the index holds a record for every other file below the
\* root and none for the file whose read failed.
C12_ReadFailureSkipsFile ==
    (last.op = "update_db" /\ last.raisedAt \in FilePaths) =>
        /\ last.exc = "none"
        /\ Paths(image_data) = FilesUnder(last.root) \ {last.raisedAt}

\* The methods that filter or replace the index and then save it.
Mutators == {"update_db", "delete_duplicates", "delete_files_by_size"}

C14_LoadDbAbsentIsEmpty ==
    last.op = "load_db" =>
        /\ last.exc = "none"
        /\ IF last.predisk.valid
           THEN last.loaded /\ image_data = json_load(last.predisk.text)
           ELSE ~last.loaded /\ image_data = <<>>

\* The last method returned after calling save_db.
Saved ==
    /\ last.exc = "none"
    /\ \/ last.op \in {"update_db", "delete_duplicates"}
       \/ last.op = "delete_files_by_size" /\ last.listed # {}

WithSize(data, sizes) == {data[i] : i \in {j \in 1 .. Len(data) : data[j].size \in sizes}}

\* C16: list_small_files returns the records with size < size_limit, in
\* their order, and delete_files_by_size selects the records with
\* size <= size_limit: the listed records are among the candidates of the
\* deletion with the same limit and the two differ by the records with
\* size = size_limit.  list_small_files changes neither the index, nor the
\* file, nor the share.
C16_ListStrictDeleteInclusive ==
    /\ last.op = "list_small_files" =>
          LET L == last.size_limit
              Below(r) == r.size < L
              listed == {last.returned[i] : i \in 1 .. Len(last.returned)}
              candidates == impacted_by_size(image_data, L)
              selected == {candidates[i] : i \in 1 .. Len(candidates)}
          IN /\ last.returned = SelectSeq(last.pre, Below)
             /\ listed \subseteq selected
             /\ selected \ listed = WithSize(last.pre, {L})
             /\ image_data = last.pre
             /\ disk = last.predisk
             /\ remote = last.preremote
    /\ (last.op = "delete_files_by_size" /\ last.exc \in {"none", "UnboundLocalError"}) =>
          LET L == last.size_limit
              small == list_small_files(last.pre, L)
          IN /\ last.listed = {r.path : r \in WithSize(last.pre, 0 .. L)}
             /\ Paths(small) \subseteq last.listed
             /\ last.listed \ Paths(small) =
                   {r.path : r \in WithSize(last.pre, {L})}

\* A listing of an index with one record below the limit and two records at
\* the limit: one is listed, the three are candidates of the deletion.
C16_Witness ==
    /\ last.op = "list_small_files"
    /\ Len(last.returned) = 1
    /\ Len(impacted_by_size(image_data, last.size_limit)) = 3

Traversed == last.op = "traverse_nas_folder"

\* The entries of the share below a folder: folders and existing files.
Descendants(folder) ==
    {p \in DirPaths \cup {f \in FilePaths : remote[f].exists} :
        IsUnder(p, folder) /\ p # folder}

\* The entries that item_type asks for.
OfType(p, item_type) ==
    \/ item_type = "both"
    \/ item_type = "files" /\ p \in FilePaths
    \/ item_type = "folders" /\ p \in DirPaths

\* The entry lies below a folder whose listing failed.
BelowUnlisted(p) == \E q \in last.unlisted : IsUnder(p, q) /\ p # q

Returned == {last.returned[i] : i \in 1 .. Len(last.returned)}

\* C17: when the listing of a folder fails during a traversal without depth
\* bound, the traversal returns, once each, the entries of the asked type
\* that are not below a folder whose listing failed: nothing below the
\* failing folder, and every entry of the folders listed before and after it.
C17_TraversalSkipsFailedSubtree ==
    (Traversed /\ last.max_depth = NoDepth) =>
        /\ Returned = {p \in Descendants(last.root) :
                          OfType(p, last.item_type) /\ ~BelowUnlisted(p)}
        /\ Len(last.returned) = Cardinality(Returned)

\* The listing of P/d failed in a traversal of P for both types: P/a and P/d
\* found before, P/b, P/e and P/e/f found after, and P/d/c, which exists, is
\* not returned.
C17_Witness ==
    /\ Traversed
    /\ last.root = <<"P">> /\ last.item_type = "both" /\ last.max_depth = NoDepth
    /\ last.unlisted = {<<"P", "d">>}
    /\ remote[<<"P", "d", "c">>].exists
    /\ last.returned = <<(<<"P", "a">>), (<<"P", "d">>), (<<"P", "b">>),
                         (<<"P", "e">>), (<<"P", "e", "f">>)>>

\* C18: without depth bound and without listing failure the traversal
\* returns each entry below the root once: the files for 'files', the folders
\* for 'folders', both for 'both'; "." and ".." are not returned, and every
\* folder below the root is listed whatever the item type.
C18_TraversalReturnsDescendants ==
    (Traversed /\ last.max_depth = NoDepth /\ last.unlisted = {}) =>
        /\ Returned = {p \in Descendants(last.root) : OfType(p, last.item_type)}
        /\ Len(last.returned) = Cardinality(Returned)
        /\ \A i \in 1 .. Len(last.returned) :
              last.returned[i][Len(last.returned[i])] \notin {".", ".."}
        /\ last.walked = {q \in DirPaths : IsUnder(q, last.root)}

\* A traversal of P for 'files' on a share where the four files exist: the
\* files of the folders d and e are returned and the folders are not.
C18_Witness ==
    /\ Traversed
    /\ last.root = <<"P">> /\ last.item_type = "files" /\ last.max_depth = NoDepth
    /\ last.unlisted = {}
    /\ Len(last.returned) = 4

\* C19: with max_depth = d the traversal lists a folder only if the number of
\* path separators from the root of the call to that folder is at most d,
\* and returns no entry of a deeper folder.
C19_DepthBound ==
    (Traversed /\ last.max_depth # NoDepth) =>
        /\ \A q \in last.walked \cup last.unlisted :
              Len(q) - Len(last.root) <= last.max_depth
        /\ \A p \in Returned :
              (Len(p) - 1) - Len(last.root) <= last.max_depth

\* A traversal of P with max_depth 0: the folder P/d is returned and not
\* listed, and its file P/d/c is not returned.
C19_Witness ==
    /\ Traversed
    /\ last.root = <<"P">> /\ last.max_depth = 0 /\ last.item_type = "both"
    /\ last.walked = {<<"P">>}
    /\ remote[<<"P", "d", "c">>].exists
    /\ <<"P", "d">> \in Returned
    /\ <<"P", "d", "c">> \notin Returned

\* copy_files_to_nas_photos_library was the last method to run.
Copied == last.op = "copy_files_to_nas_photos_library"

\* The local file of that name is deleted as a small image by the last copy.
DroppedAsSmall(n) ==
    last.delete_small /\ file_size(last.prelocal.files[n]) < MinImageSize

\* C20: a local file that is not dropped as small and whose name exists in
\* the remote target folder when the copy starts is not written to the
\* share, the remote file of that name stays as it was, and the local file
\* is not deleted, with move_files set or not.
C20_ExistingNameSkipped ==
    Copied =>
        \A n \in LocalFileNames :
            LET path == remote_file_path(last.target, n)
            IN (/\ last.prelocal.files[n] # 0
                /\ ~DroppedAsSmall(n)
                /\ path \in RemotePaths
                /\ last.preremote[path].exists) =>
                   /\ path \notin last.written
                   /\ remote[path] = last.preremote[path]
                   /\ local.files[n] = last.prelocal.files[n]

\* A copy into P/e with move_files set, where the remote file f exists: the
\* local file g is written and removed, the local file f is left, and a
\* different content stays on the share under the name f.
C20_Witness ==
    /\ Copied /\ last.exc = "none" /\ last.move
    /\ last.target = <<"P", "e">>
    /\ last.preremote[<<"P", "e", "f">>].exists
    /\ last.prelocal.files["f"] # 0 /\ ~DroppedAsSmall("f")
    /\ local.files["f"] # 0
    /\ remote[<<"P", "e", "f">>].content # local.files["f"]
    /\ <<"P", "e", "g">> \in last.written
    /\ local.files["g"] = 0

\* C21: in a copy a local file that is not dropped as small is deleted only
\* with move_files set and after storeFile has written it to the share: a
\* file whose write failed is still in the local folder, and with neither
\* move_files nor delete_small_images no local file is deleted.
C21_MoveDeletesAfterWrite ==
    Copied =>
        /\ \A n \in LocalFileNames :
              LET path == remote_file_path(last.target, n)
              IN /\ (/\ last.prelocal.files[n] # 0
                     /\ local.files[n] = 0
                     /\ ~DroppedAsSmall(n)) =>
                        /\ last.move
                        /\ path \in last.written
                        /\ remote[path].exists
                        /\ remote[path].content = last.prelocal.files[n]
                 /\ path \in last.failed =>
                        local.files[n] = last.prelocal.files[n]
        /\ (~last.move /\ ~last.delete_small) => local.files = last.prelocal.files

\* A move of two files into P/e: g is written and removed from the local
\* folder, then the write of f fails and f is still there.
C21_Witness ==
    /\ Copied /\ last.move /\ last.target = <<"P", "e">>
    /\ last.failed = {<<"P", "e", "f">>}
    /\ last.prelocal.files["f"] # 0 /\ local.files["f"] = last.prelocal.files["f"]
    /\ <<"P", "e", "g">> \in last.written
    /\ last.prelocal.files["g"] # 0 /\ local.files["g"] = 0

\* C22: after a copy with delete_small_images that returned, every local file
\* below MinImageSize is deleted from the local folder and was not written
\* to the share, with move_files set or not and with its name on the share
\* or not, and no file at or above MinImageSize is deleted by that rule.
C22_SmallFilesDropped ==
    (Copied /\ last.exc = "none" /\ last.delete_small) =>
        \A n \in LocalFileNames :
            LET path == remote_file_path(last.target, n)
                content == last.prelocal.files[n]
            IN content # 0 =>
                 IF file_size(content) < MinImageSize
                 THEN /\ local.files[n] = 0
                      /\ path \notin last.written
                      /\ remote[path] = last.preremote[path]
                 ELSE n \notin last.dropped

\* C23: when a copy returns, it has rebuilt the index from the target folder
\* (nas_folder_path joined with nas_folder_name), and every file that the
\* copy wrote to the share has a record in the index.
C23_RebuildCoversWritten ==
    (Copied /\ last.exc = "none") =>
        /\ FolderOf(last.root) = join(last.root, last.name)
        /\ last.written \subseteq Paths(image_data)

\* The steps that are not part of a run of cleanup_nas_images after its
\* connect.
OutsideRun == {"connect", "retry", "remote_change", "file_change", "list_small_files"}

\* C24: when connect() has not established the connection, the operation
\* that called it goes no further: no other method of the run is executed,
\* and the index, the index file and the share are as connect() found them.
C24_FailedConnectAborts ==
    conn = "broken" =>
        /\ last.op \in OutsideRun
        /\ last.op = "connect" =>
              /\ pc = "raised"
              /\ image_data = last.pre /\ disk = last.predisk
              /\ remote = last.preremote

\* The place of each position of cleanup_nas_images in the order of its
\* statements (lines 374-394).
Rank(p) ==
    CASE p = "load" -> 1 [] p = "update" -> 2 [] p = "size" -> 3
      [] p = "dups" -> 4 [] p = "resolve" -> 5 [] p = "disconnect" -> 6
      [] OTHER -> 0

\* The methods that call listPath, retrieveFile or deleteFiles.
RemoteOps == {"update_db", "delete_files_by_size", "delete_duplicates"}

\* What C25 says of one step of the program.
OrderedStep ==
    /\ (pc # "raised" /\ pc' \notin {"raised", pc}) =>
          \/ Rank(pc') > Rank(pc)
          \/ pc = "disconnect" /\ pc' = "idle"
    /\ Rank(pc') > 0 => conn' # "none"
    /\ (pc = "idle" /\ pc' # "idle") => last'.op = "connect"
    /\ (pc' = "idle" /\ pc \notin {"idle", "raised"}) =>
          last'.op = "disconnect" /\ conn' = "none"
    /\ (last'.op \in RemoteOps /\ last' # last) => Rank(pc) \in 2 .. 5
    /\ (pc' = "dups" /\ pc # "dups") =>
          pc = "size" /\ last'.op \in {"delete_files_by_size", "no_size"}
    /\ (last'.op = "find_duplicates_in_db" /\ last' # last) =>
          /\ pc = "dups" /\ image_data' = image_data
          /\ duplicates' = find_duplicates_in_db(image_data)

\* C25: a run of cleanup_nas_images goes through connect, load and rebuild
\* of the index, size cleanup, duplicate detection and resolution, and
\* disconnect, in that order and leaving a place only forwards, by an
\* exception or by its end; the connection object exists at every place of
\* the run, the methods that call the share run between connect and
\* disconnect, and the duplicate groups are those of the index as the size
\* cleanup left it.
C25_StepOrder == [][OrderedStep]_vars

\* A run where the size cleanup has deleted one of the three files and the
\* duplicate detection, on the index of the other two, has found a group.
C25_Witness ==
    /\ last.op = "find_duplicates_in_db" /\ pc = "resolve" /\ conn = "open"
    /\ built = NotBuilt /\ disk = save_db(image_data)
    /\ Len(image_data) = 2 /\ Len(duplicates) = 1
    /\ \E p \in FilePaths : p \notin Paths(image_data) /\ ~remote[p].exists

\* The paths that the last cleaner had to delete: the files listed by
\* delete_files_by_size, or all but the first record of the sorted group.
Candidates ==
    IF last.op = "delete_files_by_size" THEN last.listed
    ELSE Paths(Tail(sorted_group(last.group, last.choice)))

\* The records of an index whose paths are not in a set.
RECURSIVE WithoutPaths(_, _)
WithoutPaths(data, paths) ==
    IF data = <<>> THEN <<>>
    ELSE IF Head(data).path \in paths THEN WithoutPaths(Tail(data), paths)
    ELSE <<Head(data)>> \o WithoutPaths(Tail(data), paths)

\* C26: when the remote delete of a file fails in delete_files_by_size (after
\* a yes) or in delete_duplicates, the method still returns, every candidate
\* has been attempted, the index has lost the records of the files that
\* were deleted and no other, and the index file holds that index.
C26_FailedDeleteContinues ==
    (/\ last.op \in {"delete_files_by_size", "delete_duplicates"}
     /\ last.failed # {}) =>
        /\ last.exc = "none"
        /\ last.removed \cup last.failed = Candidates
        /\ image_data = WithoutPaths(last.pre, last.removed)
        /\ disk = save_db(image_data)

\* The loop over the duplicate groups has ended and every delete of it
\* succeeded.
AllResolved ==
    /\ last.op = "delete_duplicates" /\ last.exc = "none"
    /\ duplicates = <<>> /\ last.missed = {}

\* The positions of the records of an index with a digest.
WithHash(data, h) == {k \in 1 .. Len(data) : data[k].hash = h}

\* C27: when the groups found in an index with one record per path have all
\* been resolved with every delete succeeding, no two records of the index
\* have the same digest, and every digest of the index the groups were
\* found in has exactly one record, of a file that the resolver has not
\* deleted.
C27_OneCopyOfEachContentLeft ==
    (/\ AllResolved
     /\ \A i, j \in 1 .. Len(last.found) :
           last.found[i].path = last.found[j].path => i = j) =>
        /\ find_duplicates_in_db(image_data) = <<>>
        /\ \A i \in 1 .. Len(last.found) :
              /\ Cardinality(WithHash(image_data, last.found[i].hash)) = 1
              /\ \A k \in WithHash(image_data, last.found[i].hash) :
                    /\ InSeq(image_data[k], last.found)
                    /\ image_data[k].path \notin last.gone
                    /\ remote[image_data[k].path].exists

\* Two groups of two files have been resolved: two files are deleted and
\* the index holds one record of each content.
C27_Witness ==
    /\ AllResolved
    /\ Len(last.found) = 4 /\ Len(find_duplicates_in_db(last.found)) = 2
    /\ Cardinality(last.gone) = 2
    /\ Len(image_data) = 2

\* The position of the first record of an index with a path, 0 for none.
FirstWithPath(data, p) ==
    IF p \in Paths(data)
    THEN CHOOSE k \in 1 .. Len(data) :
            /\ data[k].path = p
            /\ \A j \in 1 .. k - 1 : data[j].path # p
    ELSE 0

\* C28: after a successful update_db no two records of the index have the
\* same path, whatever the index before held, and a path that had records
\* before has the first of them in index order.
C28_OneRecordPerPath ==
    Rebuilt =>
        /\ \A i, j \in 1 .. Len(image_data) :
              image_data[i].path = image_data[j].path => i = j
        /\ \A i \in 1 .. Len(image_data) :
              image_data[i].path \in Paths(last.pre) =>
                 image_data[i] = last.pre[FirstWithPath(last.pre, image_data[i].path)]

\* A rebuild of an index loaded with two different records of P/a: the
\* index has one record of P/a, the first of the two.
C28_Witness ==
    /\ Rebuilt
    /\ \E i, j \in 1 .. Len(last.pre) :
          /\ i < j
          /\ last.pre[i].path = <<"P", "a">> /\ last.pre[j].path = <<"P", "a">>
          /\ last.pre[i] # last.pre[j]
          /\ \A k \in 1 .. i - 1 : last.pre[k].path # <<"P", "a">>
          /\ InSeq(last.pre[i], image_data)
          /\ ~InSeq(last.pre[j], image_data)

\* C29: when the confirmation of delete_files_by_size is answered with
\* something other than yes, the method returns without an exception and
\* cleanup_nas_images goes on to the duplicate detection, with the
\* connection still in place for the disconnect at the end.
C29_DeclinedSizeCleanupGoesOn ==
    (/\ last.op = "delete_files_by_size"
     /\ last.answer \notin {"none", "yes"}) =>
        /\ last.exc = "none"
        /\ pc = "dups"

\* What C30 says of the step that follows load_db in cleanup_nas_images.
RebuildStep ==
    (pc = "update" /\ pc' # "update") =>
        /\ last'.op \in {"update_db", "no_update"}
        /\ (last'.op = "update_db") <=> (last.loaded \/ last'.flag)
        /\ last'.op = "no_update" =>
              /\ last'.hashed = {} /\ remote' = remote
              /\ image_data' = image_data /\ disk' = disk
              /\ temp_image_data' = temp_image_data
              /\ pc' = "size"

\* C30: after load_db, cleanup_nas_images calls update_db exactly when
\* load_db returned True or the argument update_db is true; otherwise no
\* file of the share is listed or hashed, the index in memory and the
\* index file stay as they are, and the run goes on to the size cleanup
\* with that index.
C30_RebuildWhenLoadedOrAsked == [][RebuildStep]_vars

\* A run that found no index file and was not asked to rebuild: it goes on
\* with the records that the object still held.
C30_Witness ==
    /\ last.op = "no_update" /\ pc = "size" /\ conn = "open"
    /\ ~disk.exists
    /\ image_data # <<>> /\ image_data = last.pre

====
